---- MODULE Spec2Model ----
(***************************************************************************)
(* maraboupy/MarabouNetwork.py: the symbolic network (MarabouNetwork), its *)
(* compilation into an input query (getMarabouQuery), the structural       *)
(* comparison isEqualTo, and the local-robustness search                   *)
(* (evaluateLocalRobustness).                                              *)
(***************************************************************************)
EXTENDS Integers, Sequences, FiniteSets, TLC

\* ------------------------------------------------------------------ bounds
MaxNumVars == 2     \* getNewVariable is enabled while numVars < MaxNumVars
MaxSize == 2        \* records + bound entries + groups over both networks
MaxClasses == 3     \* output classes of the networks the robustness search runs on
MaxCalls == 3        \* setLowerBound / setUpperBound calls kept in the history
MaxVal == 1         \* the solver assigns values in 0..MaxVal

\* Variable ids the callers pass; ids >= numVars occur while numVars <= 1.
VarIds == {0, 1}
\* Bound values.
BoundVals == {0, 1}
\* Operands of the two-variable constraints.
OperandPairs == {<<0, 0>>, <<0, 1>>, <<1, 0>>}
\* Leaky-ReLU slopes as fractions <<num, den>>: 0, 1/2 and 1.
Slopes == {<<0, 1>>, <<1, 2>>, <<1, 1>>}
LeakyReluArgs ==
    { <<p[1], p[2], <<1, 2>> >> : p \in OperandPairs } \cup { <<0, 0, s>> : s \in Slopes }
BilinearArgs == {<<0, 0, 0>>, <<1, 0, 0>>, <<0, 1, 0>>, <<0, 0, 1>>}
MaxArgs == {<<{}, 0>>, <<{0}, 0>>, <<{0, 1}, 0>>, <<{0}, 1>>}
SoftmaxArgs == {<<{0}, {0}>>, <<{1}, {0}>>, <<{0}, {1}>>}

None == "None"

\* ------------------------------------------------------------ numpy arrays
\* An ndarray is its shape and its row-major data.
Array(shape, data) == [shape |-> shape, data |-> data]

RECURSIVE Prod(_)
Prod(s) == IF s = <<>> THEN 1 ELSE Head(s) * Prod(Tail(s))

\* a.flatten()
Flatten(a) == a.data

\* a[0] for an array of at least one axis with a.shape[1] >= 1
Index0(a) == Array(Tail(a.shape), SubSeq(a.data, 1, Prod(Tail(a.shape))))

\* The concatenation of the flattened groups, in declaration order.
RECURSIVE FlattenAll(_)
FlattenAll(groups) ==
    IF groups = <<>> THEN <<>> ELSE Flatten(Head(groups)) \o FlattenAll(Tail(groups))

Range(s) == {s[i] : i \in DOMAIN s}

\* --------------------------------------------------------------- equations
\* A MarabouUtils.Equation object: obj is the object's identity, the rest its
\* attributes.  Two objects may carry the same attributes.
EquationObj(obj, type, addends, scalar) ==
    [obj |-> obj, EquationType |-> type, addendList |-> addends, scalar |-> scalar]

Equations ==
    { EquationObj(1, "EQ", << <<1, 0>> >>, 0),
      EquationObj(2, "EQ", << <<1, 0>> >>, 0),
      EquationObj(3, "LE", << <<1, 0>>, <<2, 1>> >>, 1) }

\* Disjunctions: lists of disjuncts, each a list of equations.
Disjunctions ==
    { << <<e>> >> : e \in Equations } \cup { << >> }

\* ------------------------------------------------------------ the network
EmptyDict == [v \in {} |-> 0]

\* inputVars / outputVars: kind is the Python type of the attribute ("list" of
\* arrays, one "ndarray" whose leading axis runs over the groups, or a
\* "tuple"), groups the arrays it iterates over.
VarGroups(kind, groups) == [kind |-> kind, groups |-> groups]

\* MarabouNetwork.clear
EmptyNetwork ==
    [ numVars |-> 0,
      equList |-> <<>>,
      additionalEquList |-> <<>>,
      reluList |-> <<>>,
      leakyReluList |-> <<>>,
      sigmoidList |-> <<>>,
      maxList |-> <<>>,
      softmaxList |-> <<>>,
      bilinearList |-> <<>>,
      absList |-> <<>>,
      signList |-> <<>>,
      disjunctionList |-> <<>>,
      lowerBounds |-> EmptyDict,
      upperBounds |-> EmptyDict,
      inputVars |-> VarGroups("list", <<>>),
      outputVars |-> VarGroups("list", <<>>) ]

\* d[x] = v on a dict
DictSet(d, x, v) == [k \in (DOMAIN d) \cup {x} |-> IF k = x THEN v ELSE d[k]]

Size(m) ==
    Len(m.equList) + Len(m.additionalEquList) + Len(m.reluList)
    + Len(m.leakyReluList) + Len(m.sigmoidList) + Len(m.maxList) + Len(m.softmaxList)
    + Len(m.bilinearList) + Len(m.absList) + Len(m.signList) + Len(m.disjunctionList)
    + Cardinality(DOMAIN m.lowerBounds) + Cardinality(DOMAIN m.upperBounds)
    + Len(m.inputVars.groups) + Len(m.outputVars.groups)

VARIABLES
    nets,      \* nets[1] is the network self, nets[2] the network it is compared with
    ret,       \* the outcome of the last call: [op, raised, value]
    pc,        \* position of the evaluateLocalRobustness / evaluateWithMarabou call
    args,      \* the arguments of that call
    loc,       \* its locals
    queries,   \* the solver calls made, in order
    calls      \* the setLowerBound / setUpperBound calls made on self, in order

vars == <<nets, ret, pc, args, loc, queries, calls>>

\* The outcome of a call: the value it returned, or the error it raised.
Returned(o, op, value) == [op |-> op, obj |-> o, raised |-> "", value |-> value]

Raised(o, op, error) ==
    [op |-> op, obj |-> o, raised |-> error, value |-> [error |-> error]]

\* The outcome of a call that returns None.
NoReturn == Returned(0, "", None)

\* The outcome r = [raised, value] of call op on network o.
Outcome(o, op, r) == [op |-> op, obj |-> o, raised |-> r.raised, value |-> r.value]

Total == Size(nets[1]) + Size(nets[2])

Room == Total < MaxSize

robustVars == <<pc, args, loc, queries>>

\* clearProperty emptying the core equations in place of the property equations.
clearPropertyWrongList(m) ==
    [m EXCEPT !.lowerBounds = EmptyDict,
              !.upperBounds = EmptyDict,
              !.equList = <<>>]

\* ------------------------------------------------ operations on a network
\* MarabouNetwork.clearProperty
clearProperty(m) ==
    [m EXCEPT !.lowerBounds = EmptyDict,
              !.upperBounds = EmptyDict,
              !.additionalEquList = <<>>]

\* MarabouNetwork.getNewVariable (the network after the call; it returns numVars - 1)
getNewVariable(m) == [m EXCEPT !.numVars = @ + 1]

\* MarabouNetwork.addEquation
addEquation(m, x, isProperty) ==
    IF isProperty
    THEN [m EXCEPT !.additionalEquList = Append(@, x)]
    ELSE [m EXCEPT !.equList = Append(@, x)]

\* MarabouNetwork.setLowerBound / setUpperBound
\* setLowerBound keeping the bound a variable already has.
setLowerBoundKeepsFirst(m, x, v) ==
    IF x \in DOMAIN m.lowerBounds THEN m
    ELSE [m EXCEPT !.lowerBounds = DictSet(@, x, v)]

setLowerBound(m, x, v) == [m EXCEPT !.lowerBounds = DictSet(@, x, v)]

setUpperBound(m, x, v) == [m EXCEPT !.upperBounds = DictSet(@, x, v)]

\* MarabouNetwork.addRelu ... addDisjunctionConstraint
addRelu(m, v1, v2) == [m EXCEPT !.reluList = Append(@, <<v1, v2>>)]

addLeakyRelu(m, v1, v2, slope) == [m EXCEPT !.leakyReluList = Append(@, <<v1, v2, slope>>)]

addBilinear(m, v1, v2, v3) == [m EXCEPT !.bilinearList = Append(@, <<v1, v2, v3>>)]

addSigmoid(m, v1, v2) == [m EXCEPT !.sigmoidList = Append(@, <<v1, v2>>)]

\* addMaxConstraint dropping the Max constraints the network holds.
addMaxConstraintAlone(m, elements, v) ==
    [m EXCEPT !.maxList = << <<elements, v>> >>]

addMaxConstraint(m, elements, v) == [m EXCEPT !.maxList = Append(@, <<elements, v>>)]

addSoftmaxConstraint(m, inputs, outputs) ==
    [m EXCEPT !.softmaxList = Append(@, <<inputs, outputs>>)]

addAbsConstraint(m, b, f) == [m EXCEPT !.absList = Append(@, <<b, f>>)]

addSignConstraint(m, b, f) == [m EXCEPT !.signList = Append(@, <<b, f>>)]

addDisjunctionConstraint(m, disjuncts) ==
    [m EXCEPT !.disjunctionList = Append(@, disjuncts)]

\* -------------------------------------------------------- getMarabouQuery
\* MarabouCore.Equation built from a MarabouUtils.Equation: a new object that
\* carries the type, the addends in order and the scalar.
CoreEquation(e) ==
    [EquationType |-> e.EquationType, addendList |-> e.addendList, scalar |-> e.scalar]

\* assert v < self.numVars for every addend
AddendsValid(e, numVars) == \A i \in DOMAIN e.addendList : e.addendList[i][2] < numVars

EquListValid(m) == \A i \in DOMAIN m.equList : AddendsValid(m.equList[i], m.numVars)

AdditionalEquListValid(m) ==
    \A i \in DOMAIN m.additionalEquList : AddendsValid(m.additionalEquList[i], m.numVars)

ReluListValid(m) ==
    \A i \in DOMAIN m.reluList :
        m.reluList[i][2] < m.numVars /\ m.reluList[i][1] < m.numVars

\* slope = <<num, den>>: 0 < slope < 1
SlopeValid(slope) == slope[1] > 0 /\ slope[1] < slope[2]

LeakyReluListValid(m) ==
    \A i \in DOMAIN m.leakyReluList :
        /\ m.leakyReluList[i][2] < m.numVars /\ m.leakyReluList[i][1] < m.numVars
        /\ SlopeValid(m.leakyReluList[i][3])

BilinearListValid(m) ==
    \A i \in DOMAIN m.bilinearList :
        /\ m.bilinearList[i][3] < m.numVars
        /\ m.bilinearList[i][2] < m.numVars
        /\ m.bilinearList[i][1] < m.numVars

SigmoidListValid(m) ==
    \A i \in DOMAIN m.sigmoidList :
        m.sigmoidList[i][2] < m.numVars /\ m.sigmoidList[i][1] < m.numVars

MaxListValid(m) ==
    \A i \in DOMAIN m.maxList :
        /\ m.maxList[i][2] < m.numVars
        /\ \A e \in m.maxList[i][1] : e < m.numVars

SoftmaxListValid(m) ==
    \A i \in DOMAIN m.softmaxList :
        /\ \A e \in m.softmaxList[i][2] : e < m.numVars
        /\ \A e \in m.softmaxList[i][1] : e < m.numVars

\* The abs and sign loops hand their operands to MarabouCore without an assert.
AbsListValid(m) == TRUE

SignListValid(m) == TRUE

DisjunctionListValid(m) ==
    \A i \in DOMAIN m.disjunctionList :
        \A j \in DOMAIN m.disjunctionList[i] :
            \A k \in DOMAIN m.disjunctionList[i][j] :
                AddendsValid(m.disjunctionList[i][j][k], m.numVars)

LowerBoundsValid(m) == \A l \in DOMAIN m.lowerBounds : l < m.numVars

\* The bound-key assert off by one.
UpperBoundsValidOffByOne(m) == \A u \in DOMAIN m.upperBounds : u <= m.numVars

UpperBoundsValid(m) == \A u \in DOMAIN m.upperBounds : u < m.numVars

\* Every assert of getMarabouQuery passes.
QueryAsserts(m) ==
    /\ EquListValid(m)
    /\ AdditionalEquListValid(m)
    /\ ReluListValid(m)
    /\ LeakyReluListValid(m)
    /\ BilinearListValid(m)
    /\ SigmoidListValid(m)
    /\ MaxListValid(m)
    /\ SoftmaxListValid(m)
    /\ AbsListValid(m)
    /\ SignListValid(m)
    /\ DisjunctionListValid(m)
    /\ LowerBoundsValid(m)
    /\ UpperBoundsValid(m)

ConvertEquations(es) == [i \in DOMAIN es |-> CoreEquation(es[i])]

ConvertDisjunction(d) == [j \in DOMAIN d |-> ConvertEquations(d[j])]

\* The InputQuery the calls of getMarabouQuery build: the marks are the
\* variables marked at input / output index 0, 1, ...
InputQuery(m) ==
    [ numVars |-> m.numVars,
      inputMarks |-> FlattenAll(m.inputVars.groups),
      outputMarks |-> FlattenAll(m.outputVars.groups),
      equations |-> ConvertEquations(m.equList) \o ConvertEquations(m.additionalEquList),
      relus |-> m.reluList,
      leakyRelus |-> m.leakyReluList,
      bilinears |-> m.bilinearList,
      sigmoids |-> m.sigmoidList,
      maxes |-> m.maxList,
      softmaxes |-> m.softmaxList,
      abses |-> m.absList,
      signs |-> m.signList,
      disjunctions |-> [i \in DOMAIN m.disjunctionList |->
                            ConvertDisjunction(m.disjunctionList[i])],
      lowerBounds |-> m.lowerBounds,
      upperBounds |-> m.upperBounds ]

\* MarabouNetwork.getMarabouQuery: the query, or the AssertionError
getMarabouQuery(m) ==
    IF QueryAsserts(m)
    THEN [raised |-> "", value |-> InputQuery(m)]
    ELSE [raised |-> "AssertionError", value |-> [error |-> "AssertionError"]]

\* ---------------------------------------------------------------- isEqualTo
Count(s, x) == Cardinality({i \in DOMAIN s : s[i] = x})

\* MarabouUtils.Equation.isEqualTo: same type, same scalar, same addends as a
\* multiset.
EquationIsEqualTo(e1, e2) ==
    /\ e1.EquationType = e2.EquationType
    /\ e1.scalar = e2.scalar
    /\ Len(e1.addendList) = Len(e2.addendList)
    /\ \A x \in Range(e1.addendList) : Count(e1.addendList, x) = Count(e2.addendList, x)

MinLen(s, t) == IF Len(s) <= Len(t) THEN Len(s) ELSE Len(t)

\* (a != b) of two flat arrays broadcasts a single element; other unequal
\* sizes do not broadcast and the comparison raises.
Broadcasts(a, b) == Len(a) = Len(b) \/ Len(a) = 1 \/ Len(b) = 1

\* (a != b).any() for flat arrays that broadcast
AnyNotEqual(a, b) ==
    IF Len(a) = Len(b) THEN \E i \in DOMAIN a : a[i] /= b[i]
    ELSE IF Len(a) = 1 THEN \E i \in DOMAIN b : a[1] /= b[i]
    ELSE \E i \in DOMAIN a : a[i] /= b[1]

\* The attributes the first test of isEqualTo compares.
AttributesDiffer(self, network) ==
    \/ self.numVars /= network.numVars
    \/ self.reluList /= network.reluList
    \/ self.sigmoidList /= network.sigmoidList
    \/ self.maxList /= network.maxList
    \/ self.absList /= network.absList
    \/ self.signList /= network.signList
    \/ self.disjunctionList /= network.disjunctionList
    \/ self.lowerBounds /= network.lowerBounds
    \/ self.upperBounds /= network.upperBounds

\* zip(self.equList, network.equList)
EquationsDiffer(self, network) ==
    \E i \in 1..MinLen(self.equList, network.equList) :
        ~EquationIsEqualTo(self.equList[i], network.equList[i])

\* zip(self.inputVars, network.inputVars)
InputVarsDiffer(self, network) ==
    \E i \in 1..MinLen(self.inputVars.groups, network.inputVars.groups) :
        AnyNotEqual(Flatten(self.inputVars.groups[i]), Flatten(network.inputVars.groups[i]))

\* zip(self.outputVars, network.outputVars): each array of self is compared
\* with itself.
OutputVarsDiffer(self, network) ==
    \E i \in 1..MinLen(self.outputVars.groups, network.outputVars.groups) :
        AnyNotEqual(Flatten(self.outputVars.groups[i]), Flatten(self.outputVars.groups[i]))

InputVarsBroadcast(self, network) ==
    \A i \in 1..MinLen(self.inputVars.groups, network.inputVars.groups) :
        Broadcasts(Flatten(self.inputVars.groups[i]), Flatten(network.inputVars.groups[i]))

\* MarabouNetwork.isEqualTo
isEqualTo(self, network) ==
    IF ~InputVarsBroadcast(self, network)
    THEN [raised |-> "ValueError", value |-> [error |-> "ValueError"]]
    ELSE [raised |-> "",
          value |-> ~ \/ AttributesDiffer(self, network)
                      \/ EquationsDiffer(self, network)
                      \/ InputVarsDiffer(self, network)
                      \/ OutputVarsDiffer(self, network)]

\* ------------------------------------------------------------ the callers
\* The arrays a parser stores in inputVars / outputVars.
Arrays ==
    { Array(<<1, 1>>, <<0>>),
      Array(<<1, 1>>, <<1>>),
      Array(<<1, 2>>, <<0, 1>>),
      Array(<<1, 3>>, <<0, 1, 0>>) }

GroupLists == { <<a>> : a \in Arrays }

\* A call on network o that changes it to m and returns nothing.
Mutate(o, op, m) ==
    /\ nets' = [nets EXCEPT ![o] = m]
    /\ ret' = IF op = "clearProperty" THEN Returned(o, op, None) ELSE NoReturn
    /\ UNCHANGED <<robustVars, calls>>

GetNewVariable(o) ==
    /\ nets[o].numVars < MaxNumVars
    /\ Mutate(o, "getNewVariable", getNewVariable(nets[o]))

AddEquation(o) ==
    /\ Room
    /\ \E x \in Equations, isProperty \in BOOLEAN :
           Mutate(o, "addEquation", addEquation(nets[o], x, isProperty))

SetLowerBound(o) ==
    \E x \in VarIds, v \in BoundVals :
        /\ Room \/ x \in DOMAIN nets[o].lowerBounds
        /\ Mutate(o, "setLowerBound", setLowerBound(nets[o], x, v))

SetUpperBound(o) ==
    \E x \in VarIds, v \in BoundVals :
        /\ Room \/ x \in DOMAIN nets[o].upperBounds
        /\ Mutate(o, "setUpperBound", setUpperBound(nets[o], x, v))

AddRelu(o) ==
    /\ Room
    /\ \E p \in OperandPairs :
           Mutate(o, "addRelu", addRelu(nets[o], p[1], p[2]))

AddLeakyRelu(o) ==
    /\ Room
    /\ \E r \in LeakyReluArgs :
           Mutate(o, "addLeakyRelu", addLeakyRelu(nets[o], r[1], r[2], r[3]))

AddBilinear(o) ==
    /\ Room
    /\ \E r \in BilinearArgs :
           Mutate(o, "addBilinear", addBilinear(nets[o], r[1], r[2], r[3]))

AddSigmoid(o) ==
    /\ Room
    /\ \E p \in OperandPairs :
           Mutate(o, "addSigmoid", addSigmoid(nets[o], p[1], p[2]))

AddMaxConstraint(o) ==
    /\ Room
    /\ \E r \in MaxArgs :
           Mutate(o, "addMaxConstraint", addMaxConstraint(nets[o], r[1], r[2]))

AddSoftmaxConstraint(o) ==
    /\ Room
    /\ \E r \in SoftmaxArgs :
           Mutate(o, "addSoftmaxConstraint", addSoftmaxConstraint(nets[o], r[1], r[2]))

AddAbsConstraint(o) ==
    /\ Room
    /\ \E p \in OperandPairs :
           Mutate(o, "addAbsConstraint", addAbsConstraint(nets[o], p[1], p[2]))

AddSignConstraint(o) ==
    /\ Room
    /\ \E p \in OperandPairs :
           Mutate(o, "addSignConstraint", addSignConstraint(nets[o], p[1], p[2]))

AddDisjunctionConstraint(o) ==
    /\ Room
    /\ \E disjuncts \in Disjunctions :
           Mutate(o, "addDisjunctionConstraint",
                  addDisjunctionConstraint(nets[o], disjuncts))

\* A subclass stores the parsed groups in self.inputVars / self.outputVars.
SetInputVars(o) ==
    \E groups \in GroupLists :
        /\ Total - Len(nets[o].inputVars.groups) + Len(groups) <= MaxSize
        /\ Mutate(o, "inputVars", [nets[o] EXCEPT !.inputVars = VarGroups("list", groups)])

SetOutputVars(o) ==
    \E groups \in GroupLists :
        /\ Total - Len(nets[o].outputVars.groups) + Len(groups) <= MaxSize
        /\ Mutate(o, "outputVars", [nets[o] EXCEPT !.outputVars = VarGroups("list", groups)])

ClearProperty(o) == Mutate(o, "clearProperty", clearProperty(nets[o]))

Clear(o) == Mutate(o, "clear", EmptyNetwork)

\* A compilation that consumes the property of the network.
GetMarabouQueryConsuming(o) ==
    /\ ret' = Outcome(o, "getMarabouQuery", getMarabouQuery(nets[o]))
    /\ nets' = [nets EXCEPT ![o] = clearProperty(nets[o])]
    /\ UNCHANGED <<robustVars, calls>>

GetMarabouQuery(o) ==
    /\ ret' = Outcome(o, "getMarabouQuery", getMarabouQuery(nets[o]))
    /\ UNCHANGED <<nets, robustVars, calls>>

IsEqualTo ==
    /\ ret' = Outcome(1, "isEqualTo", isEqualTo(nets[1], nets[2]))
    /\ UNCHANGED <<nets, robustVars, calls>>

\* The calls that build up network o.
Build(o) ==
    \/ GetNewVariable(o)
    \/ AddEquation(o)
    \/ SetLowerBound(o)
    \/ SetUpperBound(o)
    \/ AddRelu(o)
    \/ AddLeakyRelu(o)
    \/ AddBilinear(o)
    \/ AddSigmoid(o)
    \/ AddMaxConstraint(o)
    \/ AddSoftmaxConstraint(o)
    \/ AddAbsConstraint(o)
    \/ AddSignConstraint(o)
    \/ AddDisjunctionConstraint(o)
    \/ SetInputVars(o)
    \/ SetOutputVars(o)
    \/ ClearProperty(o)
    \/ Clear(o)

\* No evaluateLocalRobustness call has been made.
NoArgs ==
    [ input |-> Array(<<>>, <<>>), epsilon |-> 0, originalClass |-> 0,
      verbose |-> TRUE, targetClass |-> <<>> ]

NoLocals ==
    [ before |-> EmptyNetwork, outputStartIndex |-> 0, outputLayerSize |-> 0,
      outputLayerIndex |-> 0, bound |-> FALSE, vals |-> EmptyDict,
      stats |-> [hasTimedOut |-> FALSE], maxClass |-> <<>> ]

Idle ==
    /\ pc = "idle"
    /\ args = NoArgs
    /\ loc = NoLocals
    /\ queries = <<>>
    /\ calls = <<>>

\* One network, built up, cleared and compiled.
Init ==
    /\ nets = [o \in {1, 2} |-> EmptyNetwork]
    /\ ret = NoReturn
    /\ Idle

Next == Build(1) \/ GetMarabouQuery(1)

Spec == Init /\ [][Next]_vars

\* Two networks, built up and compared.
NextEq == Build(1) \/ Build(2) \/ IsEqualTo

SpecEq == Init /\ [][NextEq]_vars

\* ------------------------------------------------------------- the solver
\* MarabouCore.solve decides the query over the values 0..MaxVal.  It handles
\* equations, bounds and max constraints, the constraints of the networks the
\* search runs on.
Vals == 0..MaxVal

RECURSIVE AddendSum(_, _)
AddendSum(addends, a) ==
    IF addends = <<>> THEN 0
    ELSE Head(addends)[1] * a[Head(addends)[2]] + AddendSum(Tail(addends), a)

EquationHolds(e, a) ==
    LET lhs == AddendSum(e.addendList, a)
    IN  CASE e.EquationType = "EQ" -> lhs = e.scalar
          [] e.EquationType = "LE" -> lhs <= e.scalar
          [] e.EquationType = "GE" -> lhs >= e.scalar

\* a[v] is the maximum of the elements
MaxHolds(mx, a) ==
    /\ \E e \in mx[1] : a[e] = a[mx[2]]
    /\ \A e \in mx[1] : a[e] <= a[mx[2]]

Satisfies(a, q) ==
    /\ \A i \in DOMAIN q.equations : EquationHolds(q.equations[i], a)
    /\ \A i \in DOMAIN q.maxes : MaxHolds(q.maxes[i], a)
    /\ \A v \in DOMAIN q.lowerBounds : a[v] >= q.lowerBounds[v]
    /\ \A v \in DOMAIN q.upperBounds : a[v] <= q.upperBounds[v]

\* The satisfying assignments of query q.
Models(q) == {a \in [0..(q.numVars - 1) -> Vals] : Satisfies(a, q)}

\* What MarabouCore.solve may answer: an assignment that satisfies the query
\* or the empty dictionary, and statistics that have or have not timed out.
SolverResponses(q) ==
    { [vals |-> v, stats |-> [hasTimedOut |-> t]] :
          v \in {EmptyDict} \cup Models(q), t \in BOOLEAN }

\* The answer of a solver that is sound and complete and does not time out.
Exact(q, r) ==
    /\ ~r.stats.hasTimedOut
    /\ (r.vals = EmptyDict) <=> (Models(q) = {})

\* ------------------------------------------------- evaluateLocalRobustness
\* The array whose variables the call bounds: self.inputVars[0][0] of a
\* list, self.inputVars[0] of an ndarray.
PinnedInputVars(m) ==
    IF m.inputVars.kind = "list"
    THEN Index0(m.inputVars.groups[1])
    ELSE m.inputVars.groups[1]

\* The checks without the comparison of the shapes.
PreconditionErrorWithoutShape(m, input) ==
    IF m.inputVars.kind = "list" /\ Len(m.inputVars.groups) /= 1
        THEN "NotImplementedError"
    ELSE IF m.inputVars.kind \notin {"list", "ndarray"}
        THEN "RuntimeError"
    ELSE IF m.outputVars.kind \in {"list", "ndarray"}
        THEN (IF Len(m.outputVars.groups) /= 1 THEN "NotImplementedError" ELSE "")
    ELSE "RuntimeError"

\* The error the checks at the head of the call raise, "" if none.
PreconditionError(m, input) ==
    IF m.inputVars.kind = "list" /\ Len(m.inputVars.groups) /= 1
        THEN "NotImplementedError"
    ELSE IF m.inputVars.kind \notin {"list", "ndarray"}
        THEN "RuntimeError"
    ELSE IF PinnedInputVars(m).shape /= input.shape
        THEN "RuntimeError"
    ELSE IF m.outputVars.kind \in {"list", "ndarray"}
        THEN (IF Len(m.outputVars.groups) /= 1 THEN "NotImplementedError" ELSE "")
    ELSE "RuntimeError"

\* for i in range(flattenInput.size): setLowerBound(...); setUpperBound(...)
RECURSIVE PinInputs(_, _, _, _, _)
PinInputs(m, flattenInputVars, flattenInput, epsilon, i) ==
    IF i > Len(flattenInput) THEN m
    ELSE PinInputs(
            setUpperBound(
                setLowerBound(m, flattenInputVars[i], flattenInput[i] - epsilon),
                flattenInputVars[i], flattenInput[i] + epsilon),
            flattenInputVars, flattenInput, epsilon, i + 1)

\* self.outputVars[0][0]
OutputRow(m) == Index0(m.outputVars.groups[1])

\* The Max constraint of candidate outputLayerIndex.
CandidateElements(outputStartIndex, outputLayerIndex, originalClass) ==
    {outputStartIndex + outputLayerIndex, outputStartIndex + originalClass}

\* An optional class: <<>> is None, <<c>> the class c.
NoClass == <<>>

\* The loop without the break after a non-empty assignment.
BreaksOnTimeoutOnly(r) == r.stats.hasTimedOut

\* The loop without the break after a timeout.
BreaksOnAssignmentOnly(r) == DOMAIN r.vals /= {}

\* if stats.hasTimedOut(): break / elif len(vals) > 0: maxClass = ...; break
Breaks(r) == r.stats.hasTimedOut \/ DOMAIN r.vals /= {}

MaxClassAfter(maxClass, r, outputLayerIndex) ==
    IF r.stats.hasTimedOut THEN maxClass
    ELSE IF DOMAIN r.vals /= {} THEN <<outputLayerIndex>>
    ELSE maxClass

\* Targeted mode: if verbose: if not stats.hasTimedOut() and len(vals) > 0
TargetMaxClass(r, verbose, targetClass) ==
    IF verbose /\ ~r.stats.hasTimedOut /\ DOMAIN r.vals /= {}
    THEN <<targetClass>>
    ELSE NoClass

\* The networks the search runs on: variable 0 is the input x, variables
\* 1..n are the outputs, output k being x (def <<>>) or the constant c (def <<c>>).
OutputDefs == {<<>>, <<1>>}

OutputEquation(k, def) ==
    IF def = <<>>
    THEN EquationObj(k, "EQ", << <<1, k>>, <<-1, 0>> >>, 0)
    ELSE EquationObj(k, "EQ", << <<1, k>> >>, def[1])

RECURSIVE WithOutputs(_, _, _)
WithOutputs(m, defs, k) ==
    IF k > Len(defs) THEN m
    ELSE WithOutputs(addEquation(getNewVariable(m), OutputEquation(k, defs[k]), FALSE),
                     defs, k + 1)

InputGroup == Array(<<1, 1>>, <<0>>)

OutputGroup(n) == Array(<<1, n>>, [k \in 1..n |-> k])

Classifier(defs) ==
    [WithOutputs(getNewVariable(EmptyNetwork), defs, 1) EXCEPT
        !.inputVars = VarGroups("list", <<InputGroup>>),
        !.outputVars = VarGroups("list", <<OutputGroup(Len(defs))>>)]

Classifiers ==
    UNION { {Classifier(defs) : defs \in [1..n -> OutputDefs]} : n \in 1..MaxClasses }

\* One classifier with its groups stored in the other ways a caller can
\* store them, and with an output variable that was never allocated.
Base == Classifier(<< <<1>>, <<>> >>)

Variants ==
    { [Base EXCEPT !.inputVars = g] :
         g \in { VarGroups("list", <<>>),
                 VarGroups("list", <<InputGroup, InputGroup>>),
                 VarGroups("ndarray", <<InputGroup>>),
                 VarGroups("ndarray", <<InputGroup, InputGroup>>),
                 VarGroups("tuple", <<InputGroup>>) } }
    \cup
    { [Base EXCEPT !.outputVars = g] :
         g \in { VarGroups("list", <<>>),
                 VarGroups("list", <<OutputGroup(2), OutputGroup(2)>>),
                 VarGroups("ndarray", <<OutputGroup(2)>>),
                 VarGroups("tuple", <<OutputGroup(2)>>),
                 VarGroups("list", <<Array(<<2>>, <<1, 2>>)>>) } }
    \cup
    { [Base EXCEPT !.numVars = @ - 1] }

\* The arguments of the call.
InputVals == {0, 1}

Epsilons == {0, 1}

Inputs == { Array(shape, <<v>>) : shape \in {<<1>>, <<1, 1>>}, v \in InputVals }

Classes == 0..(MaxClasses - 1)

Raise(error) ==
    /\ pc' = "done"
    /\ ret' = Raised(1, "evaluateLocalRobustness", error)

\* Lines 427-462: the checks, the input bounds, the output row.
EvaluateLocalRobustness ==
    /\ pc = "idle"
    /\ \E input \in Inputs, epsilon \in Epsilons, originalClass \in Classes,
          verbose \in BOOLEAN, targetClass \in {NoClass} \cup {<<c>> : c \in Classes} :
        LET self == nets[1]
            error == PreconditionError(self, input)
            pinned == PinInputs(self, Flatten(PinnedInputVars(self)), Flatten(input),
                                epsilon, 1)
            row == OutputRow(pinned)
        IN  /\ args' = [ input |-> input, epsilon |-> epsilon,
                         originalClass |-> originalClass, verbose |-> verbose,
                         targetClass |-> targetClass ]
            /\ queries' = <<>>
            /\ IF error /= ""
               THEN /\ Raise(error)
                    /\ loc' = [NoLocals EXCEPT !.before = self]
                    /\ UNCHANGED nets
               ELSE /\ nets' = [nets EXCEPT ![1] = pinned]
                    /\ IF row.shape = <<>>
                       THEN /\ Raise("IndexError")
                            /\ loc' = [NoLocals EXCEPT !.before = self]
                       ELSE /\ pc' = IF targetClass = NoClass THEN "search" ELSE "target"
                            /\ loc' = [NoLocals EXCEPT
                                          !.before = self,
                                          !.outputStartIndex = row.data[1],
                                          !.outputLayerSize = row.shape[1]]
                            /\ UNCHANGED ret
    /\ UNCHANGED calls

\* A solver call as the history keeps it.
QueryRecord(candidate, q, r) ==
    [candidate |-> candidate, ipq |-> q, vals |-> r.vals, stats |-> r.stats]

\* Lines 467-476: one iteration of the loop over the output classes.
SearchStep ==
    /\ pc = "search"
    /\ LET i == loc.outputLayerIndex
           last == i + 1 = loc.outputLayerSize
           m == addMaxConstraint(
                    nets[1],
                    CandidateElements(loc.outputStartIndex, i, args.originalClass),
                    loc.outputStartIndex + i)
           q == getMarabouQuery(m)
       IN  IF i = args.originalClass
           THEN /\ loc' = [loc EXCEPT !.outputLayerIndex = i + 1]
                /\ pc' = IF last THEN "report" ELSE "search"
                /\ UNCHANGED <<nets, ret, queries>>
           ELSE /\ nets' = [nets EXCEPT ![1] = m]
                /\ IF q.raised /= ""
                   THEN /\ Raise(q.raised)
                        /\ UNCHANGED <<loc, queries>>
                   ELSE \E r \in SolverResponses(q.value) :
                            /\ queries' = Append(queries, QueryRecord(i, q.value, r))
                            /\ loc' = [loc EXCEPT
                                         !.outputLayerIndex = IF Breaks(r) THEN i ELSE i + 1,
                                         !.bound = TRUE,
                                         !.vals = r.vals,
                                         !.stats = r.stats,
                                         !.maxClass = MaxClassAfter(@, r, i)]
                            /\ pc' = IF Breaks(r) \/ last THEN "report" ELSE "search"
                            /\ UNCHANGED ret
    /\ UNCHANGED <<args, calls>>

\* Lines 477-482: the single query of the targeted mode.
TargetStep ==
    /\ pc = "target"
    /\ LET targetClass == args.targetClass[1]
           m == addMaxConstraint(nets[1], Range(Flatten(OutputRow(nets[1]))),
                                 loc.outputStartIndex + targetClass)
           q == getMarabouQuery(m)
       IN  /\ nets' = [nets EXCEPT ![1] = m]
           /\ IF q.raised /= ""
              THEN /\ Raise(q.raised)
                   /\ UNCHANGED <<loc, queries>>
              ELSE \E r \in SolverResponses(q.value) :
                       /\ queries' = Append(queries, QueryRecord(targetClass, q.value, r))
                       /\ loc' = [loc EXCEPT
                                    !.bound = TRUE,
                                    !.vals = r.vals,
                                    !.stats = r.stats,
                                    !.maxClass = TargetMaxClass(r, args.verbose, targetClass)]
                       /\ pc' = "report"
                       /\ UNCHANGED ret
    /\ UNCHANGED <<args, calls>>

\* Lines 484-498: the transcript reads stats, then the triple is returned.
Return ==
    /\ pc = "report"
    /\ IF ~loc.bound
       THEN Raise("UnboundLocalError")
       ELSE /\ pc' = "done"
            /\ ret' = Returned(1, "evaluateLocalRobustness",
                               [vals |-> loc.vals, stats |-> loc.stats,
                                maxClass |-> loc.maxClass])
    /\ UNCHANGED <<nets, args, loc, queries, calls>>

\* A classifier that holds a Max constraint before the call.
Constrained ==
    { addMaxConstraint(Classifier(<< <<1>>, <<>>, <<>> >>), {2, 3}, 2) }

\* One evaluateLocalRobustness call on a classifier.
InitRobust ==
    /\ \E m \in Classifiers \cup Variants \cup Constrained :
           nets = [o \in {1, 2} |-> IF o = 1 THEN m ELSE EmptyNetwork]
    /\ ret = NoReturn
    /\ Idle

NextRobust == EvaluateLocalRobustness \/ SearchStep \/ TargetStep \/ Return

SpecRobust == InitRobust /\ [][NextRobust]_vars

\* ------------------------------------------------------ evaluateWithMarabou
\* for x in zip(inputVarList, inputValList): inputDict[x[0]] = x[1]
RECURSIVE InputDict(_, _, _, _)
InputDict(inputDict, inputVarList, inputValList, i) ==
    IF i > Len(inputVarList) \/ i > Len(inputValList) THEN inputDict
    ELSE InputDict(DictSet(inputDict, inputVarList[i], inputValList[i]),
                   inputVarList, inputValList, i + 1)

\* The query with the bounds of inputDict only where it has none.
PinQueryKeepingBounds(ipq, inputDict) ==
    LET keep(d) == [k \in (DOMAIN d) \cup (DOMAIN inputDict) |->
                       IF k \in DOMAIN d THEN d[k] ELSE inputDict[k]]
    IN  [ipq EXCEPT !.lowerBounds = keep(@), !.upperBounds = keep(@)]

\* for k in inputDict: ipq.setLowerBound(k, inputDict[k]); ipq.setUpperBound(...)
PinQuery(ipq, inputDict) ==
    LET pin(d) == [k \in (DOMAIN d) \cup (DOMAIN inputDict) |->
                      IF k \in DOMAIN inputDict THEN inputDict[k] ELSE d[k]]
    IN  [ipq EXCEPT !.lowerBounds = pin(@), !.upperBounds = pin(@)]

\* The arrays of the values outputDict gives to the variables of each group.
OutputValues(outputVars, outputDict) ==
    [i \in DOMAIN outputVars |->
        Array(outputVars[i].shape,
              [j \in DOMAIN Flatten(outputVars[i]) |-> outputDict[Flatten(outputVars[i])[j]]])]

\* The error raised before the query is submitted, "" if none:
\* np.concatenate of no array, then the asserts of getMarabouQuery.
EvaluateError(m, inputValues) ==
    IF m.inputVars.groups = <<>> \/ inputValues = <<>> THEN "ValueError"
    ELSE getMarabouQuery(m).raised

\* What the call returns on the answer outputDict of the solver: <<>> is
\* None, <<outputValues>> the list of the output arrays.
EvaluateOutcome(m, outputDict) ==
    IF outputDict = EmptyDict THEN [raised |-> "", value |-> <<>>]
    ELSE IF \E v \in Range(FlattenAll(m.outputVars.groups)) : v \notin DOMAIN outputDict
        THEN [raised |-> "KeyError", value |-> [error |-> "KeyError"]]
    ELSE [raised |-> "", value |-> << OutputValues(m.outputVars.groups, outputDict) >>]

\* A network of two input variables, the second equal to the first.
TwoInputs ==
    [Classifier(<< <<>>, <<>> >>) EXCEPT
        !.inputVars = VarGroups("list", << Array(<<1, 2>>, <<0, 1>>) >>),
        !.outputVars = VarGroups("list", << Array(<<1, 1>>, <<2>>) >>)]

\* The networks evaluated: classifiers, with and without bounds of their own
\* on the input variable.
EvalNetworks ==
    Classifiers \cup Variants \cup {TwoInputs}
    \cup { setUpperBound(setLowerBound(m, 0, lo), 0, hi) :
             m \in Classifiers, lo \in BoundVals, hi \in BoundVals }

\* The argument inputValues.
InputValueLists ==
    {<<>>} \cup { <<a>> : a \in Inputs }
    \cup { << Array(<<2>>, <<v, w>>) >> : v \in InputVals, w \in InputVals }

EvaluateWithMarabou ==
    /\ pc = "idle"
    /\ pc' = "done"
    /\ \E inputValues \in InputValueLists :
        LET self == nets[1]
            error == EvaluateError(self, inputValues)
            inputDict == InputDict(EmptyDict, FlattenAll(self.inputVars.groups),
                                   FlattenAll(inputValues), 1)
            ipq == PinQuery(getMarabouQuery(self).value, inputDict)
        IN  /\ args' = [inputValues |-> inputValues]
            /\ loc' = [NoLocals EXCEPT !.before = self]
            /\ IF error /= ""
               THEN /\ ret' = Raised(1, "evaluateWithMarabou", error)
                    /\ queries' = <<>>
               ELSE \E r \in SolverResponses(ipq) :
                        /\ queries' = << QueryRecord(0, ipq, r) >>
                        /\ ret' = Outcome(1, "evaluateWithMarabou",
                                          EvaluateOutcome(self, r.vals))
    /\ UNCHANGED <<nets, calls>>

\* One evaluateWithMarabou call on a network.
InitEval ==
    /\ \E m \in EvalNetworks :
           nets = [o \in {1, 2} |-> IF o = 1 THEN m ELSE EmptyNetwork]
    /\ ret = NoReturn
    /\ Idle

NextEval == EvaluateWithMarabou

SpecEval == InitEval /\ [][NextEval]_vars

\* ------------------------------------------------ sequences of bound calls
\* A bound call on self as the history keeps it.
BoundCall(op, x, v) == [op |-> op, x |-> x, v |-> v]

\* setLowerBound(x, v) on self, kept in the history.
TracedSetLowerBound ==
    /\ Len(calls) < MaxCalls
    /\ \E x \in VarIds, v \in BoundVals :
           /\ nets' = [nets EXCEPT ![1] = setLowerBound(nets[1], x, v)]
           /\ calls' = Append(calls, BoundCall("setLowerBound", x, v))
    /\ ret' = NoReturn
    /\ UNCHANGED robustVars

\* setUpperBound(x, v) on self, kept in the history.
TracedSetUpperBound ==
    /\ Len(calls) < MaxCalls
    /\ \E x \in VarIds, v \in BoundVals :
           /\ nets' = [nets EXCEPT ![1] = setUpperBound(nets[1], x, v)]
           /\ calls' = Append(calls, BoundCall("setUpperBound", x, v))
    /\ ret' = NoReturn
    /\ UNCHANGED robustVars

\* A network as constructed and filled by a parser, then a sequence of
\* setLowerBound / setUpperBound calls.
InitBounds ==
    /\ \E m \in Classifiers \cup {EmptyNetwork} :
           nets = [o \in {1, 2} |-> IF o = 1 THEN m ELSE EmptyNetwork]
    /\ ret = NoReturn
    /\ Idle

NextBounds == TracedSetLowerBound \/ TracedSetUpperBound

SpecBounds == InitBounds /\ [][NextBounds]_vars

\* ------------------------------------------- properties of the search
Untargeted == args.targetClass = NoClass

\* A query answered with a non-empty assignment and no timeout.
Feasible(qr) == ~qr.stats.hasTimedOut /\ DOMAIN qr.vals /= {}

Finished == pc = "done" /\ ret.raised = ""

\* The candidates below c.
CandidatesBelow(c) == {d \in 0..(c - 1) : d /= args.originalClass}

\* C1: in untargeted mode the candidates are queried in ascending index order,
\* skipping originalClass, one query per candidate, each query asking for its
\* candidate to be the maximum of itself and originalClass; a query answered
\* with a non-empty assignment and no timeout is the last query, the loop is
\* left, and the call returns its candidate as the violating class.
C1_FirstFeasibleCandidateWins ==
    (pc /= "idle" /\ Untargeted) =>
        /\ \A k \in DOMAIN queries :
            LET c == queries[k].candidate
                maxes == queries[k].ipq.maxes
            IN  /\ c \in 0..(loc.outputLayerSize - 1)
                /\ c /= args.originalClass
                /\ {queries[j].candidate : j \in 1..(k - 1)} = CandidatesBelow(c)
                /\ k - 1 = Cardinality(CandidatesBelow(c))
                /\ \A j \in 1..(k - 1) : queries[j].candidate < c
                /\ maxes /= <<>>
                /\ maxes[Len(maxes)] =
                       << {loc.outputStartIndex + c,
                           loc.outputStartIndex + args.originalClass},
                          loc.outputStartIndex + c >>
                /\ Feasible(queries[k]) =>
                       /\ k = Len(queries)
                       /\ pc \in {"report", "done"}
                       /\ loc.maxClass = <<c>>
                       /\ pc = "done" =>
                              /\ ret.raised = ""
                              /\ ret.value.maxClass = <<c>>
                              /\ ret.value.vals = queries[k].vals

\* Three classes, originalClass = 0, class 1 feasible: one query, class 1
\* reported, class 2 never queried.
C1_Witness ==
    /\ Finished /\ Untargeted
    /\ loc.outputLayerSize = 3
    /\ args.originalClass = 0
    /\ Len(queries) = 1
    /\ queries[1].candidate = 1
    /\ Feasible(queries[1])
    /\ ret.value.maxClass = <<1>>

\* The base network with the input bounds of the call and the single Max
\* constraint of candidate c.
SingleCandidateQuery(c) ==
    LET row == Flatten(OutputRow(nets[1]))
        base == [nets[1] EXCEPT !.maxList = loc.before.maxList]
    IN  InputQuery(addMaxConstraint(base, {row[c + 1], row[args.originalClass + 1]},
                                    row[c + 1]))

\* C2: in untargeted mode with a sound and complete solver that does not time
\* out, the call returns no violating class only if no candidate's constraint
\* is satisfiable on its own over the base network and the input bounds.
C2_RobustOnlyIfNoCandidateFeasible ==
    ( /\ Finished /\ Untargeted
      /\ args.originalClass < loc.outputLayerSize
      /\ \A k \in DOMAIN queries : Exact(queries[k].ipq, queries[k])
      /\ ret.value.maxClass = NoClass )
    => \A c \in 0..(loc.outputLayerSize - 1) :
           c /= args.originalClass => Models(SingleCandidateQuery(c)) = {}

\* C3: in targeted mode exactly one Max constraint is added, over the whole
\* output row with outputVar[targetClass] as the maximum, exactly one query
\* is submitted, and when it is answered with a non-empty assignment and no
\* timeout the returned violating class is targetClass.
C3_TargetedReportsTarget ==
    (Finished /\ ~Untargeted) =>
        LET row == Flatten(OutputRow(nets[1]))
            targetClass == args.targetClass[1]
        IN  /\ Len(queries) = 1
            /\ nets[1].maxList =
                   Append(loc.before.maxList, <<Range(row), row[targetClass + 1]>>)
            /\ Feasible(queries[1]) => ret.value.maxClass = args.targetClass

\* C4: in untargeted mode a query whose statistics report a timeout is the
\* last query, the loop is left with no violating class, and the call returns
\* the timed-out statistics; a call that returns after no timeout returns
\* statistics that have not timed out.
C4_TimeoutEndsSearch ==
    (pc /= "idle" /\ Untargeted) =>
        /\ \A k \in DOMAIN queries :
               queries[k].stats.hasTimedOut =>
                   /\ k = Len(queries)
                   /\ pc \in {"report", "done"}
                   /\ loc.maxClass = NoClass
                   /\ pc = "done" =>
                          /\ ret.raised = ""
                          /\ ret.value.maxClass = NoClass
                          /\ ret.value.stats = queries[k].stats
                          /\ ret.value.stats.hasTimedOut
        /\ (Finished /\ \A k \in DOMAIN queries : ~queries[k].stats.hasTimedOut)
               => ~ret.value.stats.hasTimedOut

\* The first candidate of three times out: one query, no class reported.
C4_Witness ==
    /\ Finished /\ Untargeted
    /\ loc.outputLayerSize = 3
    /\ args.originalClass = 0
    /\ Len(queries) = 1
    /\ queries[1].candidate = 1
    /\ queries[1].stats.hasTimedOut
    /\ ret.value.maxClass = NoClass
    /\ ret.value.stats.hasTimedOut

\* The call raised one of the errors of its checks, the bound maps and the
\* Max constraints are as they were, and no query was submitted.
Rejected ==
    /\ pc = "done"
    /\ ret.raised \in {"NotImplementedError", "RuntimeError"}
    /\ nets[1].lowerBounds = loc.before.lowerBounds
    /\ nets[1].upperBounds = loc.before.upperBounds
    /\ nets[1].maxList = loc.before.maxList
    /\ queries = <<>>

\* C8 as stated: the call rejects a model whose number of input groups is not
\* one, a model whose number of output groups is not one, and an input whose
\* shape is not the shape of the single input group, before any mutation.
C8_RejectsGroupShapeMismatch ==
    LET m == loc.before
    IN  ( /\ pc /= "idle"
          /\ \/ Len(m.inputVars.groups) /= 1
             \/ Len(m.outputVars.groups) /= 1
             \/ args.input.shape /= m.inputVars.groups[1].shape )
        => Rejected

\* C8 as amended: the call rejects a model whose inputVars is a list of a
\* number of groups other than one, a model whose number of output groups is
\* not one, and an input whose shape is not the shape of the array the call
\* bounds (inputVars[0][0] of a list, inputVars[0] of an ndarray), before any
\* mutation.
C8_RejectsBeforeMutation ==
    LET m == loc.before
    IN  ( /\ pc /= "idle"
          /\ \/ m.inputVars.kind = "list" /\ Len(m.inputVars.groups) /= 1
             \/ Len(m.outputVars.groups) /= 1
             \/ /\ m.inputVars.kind = "ndarray" \/ Len(m.inputVars.groups) = 1
                /\ PinnedInputVars(m).shape /= args.input.shape )
        => Rejected

\* One input group, one output group, and an input of the group's own shape
\* <<1, 1>>, which is not the shape <<1>> of inputVars[0][0]: RuntimeError.
C8_Witness ==
    /\ pc = "done"
    /\ ret.raised = "RuntimeError"
    /\ loc.before.inputVars.kind = "list"
    /\ Len(loc.before.inputVars.groups) = 1
    /\ Len(loc.before.outputVars.groups) = 1
    /\ loc.before.outputVars.kind = "list"
    /\ args.input.shape = loc.before.inputVars.groups[1].shape
    /\ nets[1] = loc.before

\* ------------------------------------------ properties of the compilation
ListsOf(m) ==
    << m.reluList, m.leakyReluList, m.bilinearList, m.sigmoidList, m.maxList,
       m.softmaxList, m.absList, m.signList, m.disjunctionList >>

\* Some constraint record of m has an operand >= numVars.
BadConstraintOperand(m) ==
    LET bad(v) == v >= m.numVars
    IN  \/ \E i \in DOMAIN m.reluList : bad(m.reluList[i][1]) \/ bad(m.reluList[i][2])
        \/ \E i \in DOMAIN m.leakyReluList :
               bad(m.leakyReluList[i][1]) \/ bad(m.leakyReluList[i][2])
        \/ \E i \in DOMAIN m.bilinearList :
               \E j \in 1..3 : bad(m.bilinearList[i][j])
        \/ \E i \in DOMAIN m.sigmoidList :
               bad(m.sigmoidList[i][1]) \/ bad(m.sigmoidList[i][2])
        \/ \E i \in DOMAIN m.maxList :
               bad(m.maxList[i][2]) \/ \E e \in m.maxList[i][1] : bad(e)
        \/ \E i \in DOMAIN m.softmaxList :
               \E e \in m.softmaxList[i][1] \cup m.softmaxList[i][2] : bad(e)
        \/ \E i \in DOMAIN m.absList : bad(m.absList[i][1]) \/ bad(m.absList[i][2])
        \/ \E i \in DOMAIN m.signList : bad(m.signList[i][1]) \/ bad(m.signList[i][2])

\* The last call compiled network o as it is now.
Compiled(o) == ret.op = "getMarabouQuery" /\ ret.obj = o

\* C5: compiling a network that holds a constraint record of any kind with an
\* operand >= numVars fails.
C5_ConstraintOperandsValidated ==
    (Compiled(1) /\ BadConstraintOperand(nets[1])) => ret.raised = "AssertionError"

BadAddend(e, numVars) == \E i \in DOMAIN e.addendList : e.addendList[i][2] >= numVars

\* Some addend of an equation of m, or some key of its bound maps, is >= numVars.
BadAddendOrBoundKey(m) ==
    \/ \E i \in DOMAIN m.equList : BadAddend(m.equList[i], m.numVars)
    \/ \E i \in DOMAIN m.additionalEquList : BadAddend(m.additionalEquList[i], m.numVars)
    \/ \E i \in DOMAIN m.disjunctionList :
           \E j \in DOMAIN m.disjunctionList[i] :
               \E k \in DOMAIN m.disjunctionList[i][j] :
                   BadAddend(m.disjunctionList[i][j][k], m.numVars)
    \/ \E v \in DOMAIN m.lowerBounds : v >= m.numVars
    \/ \E v \in DOMAIN m.upperBounds : v >= m.numVars

\* C6: a network with an equation addend (core, property or inside a
\* disjunct) or a bound key >= numVars is built without error, and compiling
\* it raises and yields no query.
C6_AddendsAndBoundKeysValidated ==
    BadAddendOrBoundKey(nets[1]) =>
        IF Compiled(1)
        THEN ret.raised = "AssertionError" /\ ret.value = [error |-> "AssertionError"]
        ELSE ret.raised = ""

\* A one-variable network whose only fault is a bound on variable 1.
C6_Witness ==
    /\ Compiled(1)
    /\ ret.raised = "AssertionError"
    /\ nets[1].numVars = 1
    /\ DOMAIN nets[1].upperBounds = {1}
    /\ DOMAIN nets[1].lowerBounds = {}
    /\ nets[1].equList = <<>> /\ nets[1].additionalEquList = <<>>
    /\ nets[1].disjunctionList = <<>>
    /\ ~BadConstraintOperand(nets[1])

\* C7: a clearProperty call leaves the bound maps and the property equations
\* empty and the core equations, every constraint list, numVars, inputVars
\* and outputVars as they were.
C7_ClearPropertyFrame ==
    [][ ret'.op = "clearProperty" =>
          LET o == ret'.obj
          IN  /\ nets'[o].lowerBounds = EmptyDict
              /\ nets'[o].upperBounds = EmptyDict
              /\ nets'[o].additionalEquList = <<>>
              /\ nets'[o].equList = nets[o].equList
              /\ ListsOf(nets'[o]) = ListsOf(nets[o])
              /\ nets'[o].numVars = nets[o].numVars
              /\ nets'[o].inputVars = nets[o].inputVars
              /\ nets'[o].outputVars = nets[o].outputVars ]_vars

\* clearProperty has returned on a network that keeps a core equation and a
\* constraint.
C7_Witness ==
    /\ ret.op = "clearProperty"
    /\ Len(nets[1].equList) = 1
    /\ Len(ListsOf(nets[1])[1]) = 1
    /\ nets[1].additionalEquList = <<>>
    /\ DOMAIN nets[1].lowerBounds = {}

\* C9: a getMarabouQuery call leaves the network as it was; called again at
\* once it yields the same outcome; the query holds the network's variable
\* count, its marks, the core equations followed by the property equations,
\* its constraints and its bounds.
C9_CompileIsPure ==
    [][ ret'.op = "getMarabouQuery" =>
          LET m == nets[ret'.obj]
              q == ret'.value
          IN  /\ nets' = nets
              /\ Compiled(ret'.obj) => ret' = ret
              /\ ret'.raised = "" =>
                    /\ q.numVars = m.numVars
                    /\ q.inputMarks = FlattenAll(m.inputVars.groups)
                    /\ q.outputMarks = FlattenAll(m.outputVars.groups)
                    /\ Len(q.equations) = Len(m.equList) + Len(m.additionalEquList)
                    /\ \A i \in DOMAIN m.equList :
                           q.equations[i] = CoreEquation(m.equList[i])
                    /\ \A i \in DOMAIN m.additionalEquList :
                           q.equations[Len(m.equList) + i] =
                               CoreEquation(m.additionalEquList[i])
                    /\ << q.relus, q.leakyRelus, q.bilinears, q.sigmoids, q.maxes,
                          q.softmaxes, q.abses, q.signs >> = SubSeq(ListsOf(m), 1, 8)
                    /\ q.lowerBounds = m.lowerBounds
                    /\ q.upperBounds = m.upperBounds ]_vars

\* A query of a core equation followed by a property equation.
C9_Witness ==
    /\ Compiled(1)
    /\ ret.raised = ""
    /\ Len(nets[1].equList) = 1
    /\ Len(nets[1].additionalEquList) = 1
    /\ Len(ret.value.equations) = 2

\* ---------------------------------------------- properties of isEqualTo
GroupData(g) == [i \in DOMAIN g.groups |-> Flatten(g.groups[i])]

\* C10: isEqualTo returns true only if the two networks agree on numVars, on
\* every constraint list, on both bound maps, and elementwise on inputVars
\* and outputVars.
C10_EqualOnlyIfComponentsAgree ==
    (ret.op = "isEqualTo" /\ ret.raised = "" /\ ret.value = TRUE) =>
        /\ nets[1].numVars = nets[2].numVars
        /\ SubSeq(ListsOf(nets[1]), 1, 8) = SubSeq(ListsOf(nets[2]), 1, 8)
        /\ Len(nets[1].disjunctionList) = Len(nets[2].disjunctionList)
        /\ \A i \in DOMAIN nets[1].disjunctionList :
               ConvertDisjunction(nets[1].disjunctionList[i])
                   = ConvertDisjunction(nets[2].disjunctionList[i])
        /\ nets[1].lowerBounds = nets[2].lowerBounds
        /\ nets[1].upperBounds = nets[2].upperBounds
        /\ GroupData(nets[1].inputVars) = GroupData(nets[2].inputVars)
        /\ GroupData(nets[1].outputVars) = GroupData(nets[2].outputVars)

\* ------------------------------------------ properties of the bound calls
\* The position in the history of the last call op on variable x, 0 if none.
LastCall(op, x) ==
    LET at == {i \in DOMAIN calls : calls[i].op = op /\ calls[i].x = x}
    IN  IF at = {} THEN 0 ELSE CHOOSE i \in at : \A j \in at : j <= i

\* Bound map d holds, for each variable, the value of the last call op on it.
HoldsLastWrites(d, op) ==
    /\ DOMAIN d = {calls[i].x : i \in {j \in DOMAIN calls : calls[j].op = op}}
    /\ \A x \in DOMAIN d : d[x] = calls[LastCall(op, x)].v

\* Network m without its bound maps.
WithoutBounds(m) == [m EXCEPT !.lowerBounds = EmptyDict, !.upperBounds = EmptyDict]

\* C12: after any sequence of setLowerBound / setUpperBound calls each bound
\* map holds one entry per variable that was set in its direction, the value
\* of the most recent call for that variable and direction, and a call
\* changes nothing but the entry of its variable in the map of its direction.
C12_LastWriteWins ==
    /\ [](/\ HoldsLastWrites(nets[1].lowerBounds, "setLowerBound")
          /\ HoldsLastWrites(nets[1].upperBounds, "setUpperBound"))
    /\ [][ calls' /= calls =>
             LET c == calls'[Len(calls')]
                 changed == IF c.op = "setLowerBound" THEN "lowerBounds" ELSE "upperBounds"
                 kept == IF c.op = "setLowerBound" THEN "upperBounds" ELSE "lowerBounds"
             IN  /\ WithoutBounds(nets'[1]) = WithoutBounds(nets[1])
                 /\ nets'[1][kept] = nets[1][kept]
                 /\ nets'[1][changed][c.x] = c.v
                 /\ \A y \in DOMAIN nets[1][changed] :
                        y /= c.x => nets'[1][changed][y] = nets[1][changed][y] ]_vars

\* The lower bound of variable 0 set to 0 and then to 1: one bound, 1.
C12_Witness ==
    /\ calls = << BoundCall("setLowerBound", 0, 0), BoundCall("setLowerBound", 0, 1) >>
    /\ DOMAIN nets[1].lowerBounds = {0}
    /\ nets[1].lowerBounds[0] = 1
    /\ nets[1].upperBounds = EmptyDict
    /\ nets[1].numVars > 0

\* ------------------------------------ properties of the untargeted search
\* The Max constraint the loop adds for candidate c.
CandidateConstraint(c) ==
    << {loc.outputStartIndex + c, loc.outputStartIndex + args.originalClass},
       loc.outputStartIndex + c >>

\* The Max constraints of the candidates of the first k queries, in order.
ConstraintsOfQueries(k) == [j \in 1..k |-> CandidateConstraint(queries[j].candidate)]

\* The bounds the call has set on the input variables are in the bound maps.
InputBoundsRemain ==
    LET flattenInputVars == Flatten(PinnedInputVars(loc.before))
        flattenInput == Flatten(args.input)
    IN  \A i \in DOMAIN flattenInput :
            (\A j \in DOMAIN flattenInput : j > i => flattenInputVars[j] /= flattenInputVars[i])
            => /\ flattenInputVars[i] \in DOMAIN nets[1].lowerBounds
               /\ flattenInputVars[i] \in DOMAIN nets[1].upperBounds
               /\ nets[1].lowerBounds[flattenInputVars[i]] = flattenInput[i] - args.epsilon
               /\ nets[1].upperBounds[flattenInputVars[i]] = flattenInput[i] + args.epsilon

\* C13: in an untargeted call the k-th query holds the Max constraints the
\* network held before the call followed by the constraints of the candidates
\* of queries 1..k, the network holds the constraints of all the queries made,
\* so its Max constraints have grown by the number of queries when the call
\* returns, and the input bounds the call has set stay in the bound maps.
C13_NoRollback ==
    (pc /= "idle" /\ Untargeted /\ ret.raised = "") =>
        /\ \A k \in DOMAIN queries :
               queries[k].ipq.maxes = loc.before.maxList \o ConstraintsOfQueries(k)
        /\ nets[1].maxList = loc.before.maxList \o ConstraintsOfQueries(Len(queries))
        /\ Len(nets[1].maxList) = Len(loc.before.maxList) + Len(queries)
        /\ InputBoundsRemain

\* A call on a network with one Max constraint returns after two queries:
\* the second query holds three Max constraints, and so does the network.
C13_Witness ==
    /\ Finished /\ Untargeted
    /\ Len(loc.before.maxList) = 1
    /\ Len(queries) = 2
    /\ Len(queries[2].ipq.maxes) = 3
    /\ Len(nets[1].maxList) = 3
    /\ 0 \in DOMAIN nets[1].lowerBounds

\* The network before the call passes the checks of the call, its single
\* output group has a row of n >= 1 allocated variables, it compiles, and
\* originalClass is one of the n classes.
PassesPreconditions ==
    LET m == loc.before
    IN  /\ pc /= "idle"
        /\ PreconditionError(m, args.input) = ""
        /\ OutputRow(m).shape /= <<>>
        /\ OutputRow(m).shape[1] >= 1
        /\ \A v \in Range(Flatten(OutputRow(m))) : v < m.numVars
        /\ getMarabouQuery(m).raised = ""
        /\ args.originalClass \in 0..(OutputRow(m).shape[1] - 1)

\* C14: an untargeted call on a network that passes the preconditions makes
\* at most n - 1 queries and returns a triple; when every candidate has been
\* queried with no assignment and no timeout (with n = 1: no candidate at
\* all) it returns with no violating class.
C14_ReturnsRobustWhenExhausted ==
    (PassesPreconditions /\ Untargeted) =>
        LET n == OutputRow(loc.before).shape[1]
        IN  /\ Len(queries) <= n - 1
            /\ pc = "done" =>
                   /\ ret.raised = ""
                   /\ ret.op = "evaluateLocalRobustness"
                   /\ ( /\ Len(queries) = n - 1
                        /\ \A k \in DOMAIN queries :
                               ~Feasible(queries[k]) /\ ~queries[k].stats.hasTimedOut )
                      => ret.value.maxClass = NoClass

\* ------------------------------------- properties of evaluateWithMarabou
Evaluated == pc = "done" /\ ret.op = "evaluateWithMarabou"

\* The positions of the input variables that are given a value, and of these
\* the last position of each variable.
GivenPositions ==
    1..MinLen(FlattenAll(nets[1].inputVars.groups), FlattenAll(args.inputValues))

LastGiven(i) ==
    LET inputVarList == FlattenAll(nets[1].inputVars.groups)
    IN  \A j \in GivenPositions : j > i => inputVarList[j] /= inputVarList[i]

\* Bound map d of the query is map own of the network with the given input
\* values in place of the entries of their variables.
PinnedOver(d, own) ==
    LET inputVarList == FlattenAll(nets[1].inputVars.groups)
        inputValList == FlattenAll(args.inputValues)
        given == {inputVarList[i] : i \in GivenPositions}
    IN  /\ DOMAIN d = (DOMAIN own) \cup given
        /\ \A i \in GivenPositions : LastGiven(i) => d[inputVarList[i]] = inputValList[i]
        /\ \A k \in (DOMAIN own) \ given : d[k] = own[k]

\* The network y = x of one input and one output, with any bounds.
IsIdentity(m) == WithoutBounds(m) = Classifier(<< <<>> >>)

\* C11: the query evaluateWithMarabou submits bounds every input variable
\* that is given a value from below and from above by that value, whatever
\* bound the network holds for it, and is the compiled network otherwise;
\* the network is left as it was; the call returns None exactly when the
\* assignment of the solver is empty, and otherwise one array per output
\* group, in order, of the values the assignment gives to the variables of
\* the group; the network y = x evaluated at x returns x.
C11_EvaluatePinsInputs ==
    Evaluated =>
        /\ nets[1] = loc.before
        /\ queries = <<>> <=> ret.raised \in {"ValueError", "AssertionError"}
        /\ queries /= <<>> =>
            LET ipq == queries[1].ipq
                outputDict == queries[1].vals
                outputVars == nets[1].outputVars.groups
            IN  /\ PinnedOver(ipq.lowerBounds, nets[1].lowerBounds)
                /\ PinnedOver(ipq.upperBounds, nets[1].upperBounds)
                /\ [ipq EXCEPT !.lowerBounds = EmptyDict, !.upperBounds = EmptyDict]
                       = [InputQuery(nets[1]) EXCEPT !.lowerBounds = EmptyDict,
                                                     !.upperBounds = EmptyDict]
                /\ outputDict = EmptyDict => ret.raised = ""
                /\ ret.raised = "" => (ret.value = <<>> <=> outputDict = EmptyDict)
                /\ (ret.raised = "" /\ ret.value /= <<>>) =>
                       LET outputValues == ret.value[1]
                       IN  /\ Len(outputValues) = Len(outputVars)
                           /\ \A i \in DOMAIN outputVars :
                                  /\ outputValues[i].shape = outputVars[i].shape
                                  /\ \A j \in DOMAIN outputVars[i].data :
                                         outputValues[i].data[j]
                                             = outputDict[outputVars[i].data[j]]
                           /\ IsIdentity(nets[1]) =>
                                  outputValues[1].data
                                      = << FlattenAll(args.inputValues)[1] >>

\* The network y = x with bounds 1 <= x <= 1 of its own, evaluated at 0:
\* the query bounds x by 0, the network keeps its bounds, the output is 0.
C11_Witness ==
    /\ Evaluated
    /\ IsIdentity(nets[1])
    /\ nets[1].lowerBounds = (0 :> 1) /\ nets[1].upperBounds = (0 :> 1)
    /\ FlattenAll(args.inputValues) = <<0>>
    /\ queries[1].ipq.lowerBounds = (0 :> 0) /\ queries[1].ipq.upperBounds = (0 :> 0)
    /\ ret.raised = ""
    /\ ret.value /= <<>>
    /\ ret.value[1][1].data = <<0>>

====
